---- MODULE Spec2Model ----
(***************************************************************************)
(* Pastry overlay of src/Pastry/node.py: routing table, leaf set,          *)
(* neighborhood set, next-hop selection, join, graceful leave, rebuild     *)
(* and the keyed operations routed over them.                              *)
(*                                                                         *)
(* Identifiers are HASH_HEX_DIGITS hex digits; the model holds them as the *)
(* integer they denote (fixed-width lowercase hex strings compare like     *)
(* their values) and reads digits by arithmetic.  Python's None is None.   *)
(*                                                                         *)
(* helper_functions.py, constants.py and Pastry/network.py are not part of *)
(* the sources at hand; the definitions that stand for them follow the     *)
(* written specification and are marked so in the model map.               *)
(***************************************************************************)
EXTENDS Integers, Sequences, FiniteSets, TLC

\* ---------------------------------------------------------------- constants
HASH_HEX_DIGITS == 4
b == 4
L == 4
N == 8

Base == 2 ^ b
Rows == 0 .. (HASH_HEX_DIGITS - 1)
Cols == 0 .. (Base - 1)
None == 0 - 1

\* floor(sqrt(N)): the capacity of the neighborhood set at construction
MCapacity == CHOOSE r \in 0 .. N : r * r <= N /\ (r + 1) * (r + 1) > N

\* ---------------------------------------------------------------- inputs
\* Identifiers the membership specifications draw joining nodes from
\* (0x1100, 0x1300, 0x1400, 0x2000).
NodeIds == {4352, 4864, 5120, 8192}
\* Positions on the 1-D topology are 0 .. MaxPos-1, distinct among live nodes.
MaxPos == 4
Positions == 0 .. (MaxPos - 1)
\* Nodes constructed in one run (each takes a port that is never given back).
MaxNodes == 4
\* Threads that construct nodes at the same time.
MaxThreads == 2
Threads == 1 .. MaxThreads

\* ---------------------------------------------------------------- state
VARIABLES
    nodes,              \* network.nodes: registered ids, in insertion order
    used_ports,         \* network.used_ports: one port per node ever constructed
    up,                 \* ids whose server accepts connections
    position,           \* node.position
    routing_table,      \* node.routing_table[row][col]
    Lmin,               \* node.Lmin
    Lmax,               \* node.Lmax
    neighborhood_set,   \* node.neighborhood_set
    kd_tree,            \* node.kd_tree: not built, or the stored records
    servers,            \* per id, the number of node objects whose server runs
    constructing,       \* per constructing thread: where it is in _generate_port
    handling,           \* per worker thread: the INSERT_KEY request it is handling
    resp                \* what the last operation returned to its caller

vars == <<nodes, used_ports, up, position, routing_table, Lmin, Lmax, neighborhood_set,
          kd_tree, servers, constructing, handling, resp>>

\* ---------------------------------------------------------------- helpers
Range(s) == {s[i] : i \in 1 .. Len(s)}
\* a per-node map with the entry of node x set to v, and with x's entry dropped
With(f, x, v) == [n \in (DOMAIN f) \cup {x} |-> IF n = x THEN v ELSE f[n]]
Without(f, x) == [n \in (DOMAIN f) \ {x} |-> f[n]]
Abs(x) == IF x < 0 THEN 0 - x ELSE x
InSeq(x, s) == \E i \in 1 .. Len(s) : s[i] = x

\* digit i (0 = most significant) of an identifier
Digit(id, i) == (id \div (Base ^ (HASH_HEX_DIGITS - 1 - i))) % Base

\* helper_functions.common_prefix_length
common_prefix_length(x, y) ==
    IF x = y THEN HASH_HEX_DIGITS
    ELSE CHOOSE i \in Rows :
            /\ Digit(x, i) # Digit(y, i)
            /\ \A j \in 0 .. (i - 1) : Digit(x, j) = Digit(y, j)

\* helper_functions.hex_distance: <<index of the first differing digit, |x - y|>>
hex_distance(x, y) == <<common_prefix_length(x, y), Abs(x - y)>>

\* helper_functions.hex_compare: x >= y
hex_compare(x, y) == x >= y

\* helper_functions.topological_distance
topological_distance(p, q) == Abs(p - q)

\* PastryNode.__init__: the tables of a freshly constructed node
EmptyTable == [r \in Rows |-> [c \in Cols |-> None]]
EmptyLeaf == [i \in 1 .. (L \div 2) |-> None]
EmptyNeighborhood == [i \in 1 .. MCapacity |-> None]

\* The part of the state the membership operations work on, as one record.
Snapshot ==
    [nodes |-> nodes, up |-> up, position |-> position,
     routing_table |-> routing_table, Lmin |-> Lmin, Lmax |-> Lmax,
     neighborhood_set |-> neighborhood_set, exc |-> FALSE]

Registered(s) == Range(s.nodes)

\* ---------------------------------------------------------------- data structure updates
\* update_routing_table_row without the check of lines 702-703
update_routing_table_row_NoDigitCheck(rt, me, row_idx, received_row) ==
    [rt EXCEPT ![row_idx] =
        [c \in Cols |->
            IF received_row[c] # None /\ rt[row_idx][c] = None
            THEN received_row[c]
            ELSE rt[row_idx][c]]]

\* update_routing_table_row: merge a received row into this node's row row_idx
update_routing_table_row(rt, me, row_idx, received_row) ==
    [rt EXCEPT ![row_idx] =
        [c \in Cols |->
            IF /\ received_row[c] # None
               /\ Digit(received_row[c], row_idx) # Digit(me, row_idx)
               /\ rt[row_idx][c] = None
            THEN received_row[c]
            ELSE rt[row_idx][c]]]

\* update_routing_table_entry without the test of line 716: the last writer wins
update_routing_table_entry_Overwrites(rt, idx, node_id) ==
    [rt EXCEPT ![idx][Digit(node_id, idx)] = node_id]

\* update_routing_table_entry: write node_id at (idx, digit idx of node_id) if empty
update_routing_table_entry(rt, idx, node_id) ==
    IF rt[idx][Digit(node_id, idx)] = None
    THEN [rt EXCEPT ![idx][Digit(node_id, idx)] = node_id]
    ELSE rt

\* index of the first empty slot of a list, 0 when there is none
FirstEmpty(list) ==
    IF \E i \in 1 .. Len(list) : list[i] = None
    THEN CHOOSE i \in 1 .. Len(list) :
            list[i] = None /\ \A j \in 1 .. (i - 1) : list[j] # None
    ELSE 0

\* _update_leaf_list, lines 967-981: the scan for the member to replace;
\* <<far_diff_dig_idx, max_num_dist, replace_index>> after slots i .. end
RECURSIVE FarthestLeaf(_, _, _, _)
FarthestLeaf(list, me, i, acc) ==
    IF i > Len(list) THEN acc
    ELSE LET d == hex_distance(list[i], me) IN
         IF d[1] < acc[1] \/ (d[1] = acc[1] /\ d[2] > acc[2])
         THEN FarthestLeaf(list, me, i + 1, <<d[1], d[2], i>>)
         ELSE FarthestLeaf(list, me, i + 1, acc)

\* _update_leaf_list without the comparison of lines 987-989: a full list always
\* gives up its farthest member
_update_leaf_list_NoComparison(me, lmin, lmax, leaf_list, key) ==
    IF InSeq(key, lmin \o lmax) THEN leaf_list
    ELSE IF FirstEmpty(leaf_list) # 0
    THEN [leaf_list EXCEPT ![FirstEmpty(leaf_list)] = key]
    ELSE LET far == FarthestLeaf(leaf_list, me, 1, <<HASH_HEX_DIGITS, 0 - 1, 0 - 1>>)
         IN [leaf_list EXCEPT ![far[3]] = key]

\* _update_leaf_list(leaf_list, key) of node me whose halves are lmin and lmax;
\* the result is the new content of leaf_list
_update_leaf_list(me, lmin, lmax, leaf_list, key) ==
    IF InSeq(key, lmin \o lmax) THEN leaf_list
    ELSE IF FirstEmpty(leaf_list) # 0
    THEN [leaf_list EXCEPT ![FirstEmpty(leaf_list)] = key]
    ELSE LET far == FarthestLeaf(leaf_list, me, 1, <<HASH_HEX_DIGITS, 0 - 1, 0 - 1>>)
             d == hex_distance(key, me)
         IN IF d[1] > far[1] \/ (d[1] = far[1] /\ d[2] < far[2])
            THEN [leaf_list EXCEPT ![far[3]] = key]
            ELSE leaf_list

\* update_leaf_set with the two branches of line 802 exchanged
update_leaf_set_Swapped(s, me, rLmin, rLmax, key) ==
    IF hex_compare(key, me)
    THEN [s EXCEPT !.Lmax[me] = rLmax,
                   !.Lmin[me] = _update_leaf_list(me, rLmin, rLmax, rLmin, key)]
    ELSE [s EXCEPT !.Lmin[me] = rLmin,
                   !.Lmax[me] = _update_leaf_list(me, rLmin, rLmax, rLmax, key)]

\* update_leaf_set: node me takes the sender's halves, then offers the sender
update_leaf_set(s, me, rLmin, rLmax, key) ==
    IF hex_compare(key, me)
    THEN [s EXCEPT !.Lmin[me] = rLmin,
                   !.Lmax[me] = _update_leaf_list(me, rLmin, rLmax, rLmax, key)]
    ELSE [s EXCEPT !.Lmax[me] = rLmax,
                   !.Lmin[me] = _update_leaf_list(me, rLmin, rLmax, rLmin, key)]

\* _update_neighborhood_set, lines 776-779: <<max_dist, replace_idx>> after
\* slots i .. end
RECURSIVE FarthestNeighbor(_, _, _, _)
FarthestNeighbor(s, me, i, acc) ==
    IF i > Len(s.neighborhood_set[me]) THEN acc
    ELSE LET d == topological_distance(s.position[s.neighborhood_set[me][i]],
                                       s.position[me])
         IN IF d > acc[1]
            THEN FarthestNeighbor(s, me, i + 1, <<d, i>>)
            ELSE FarthestNeighbor(s, me, i + 1, acc)

\* _update_neighborhood_set(key) at node me.  network.nodes[neighbor_id] raises
\* KeyError for a neighbor that is no longer registered.
_update_neighborhood_set(s, me, key) ==
    LET set == s.neighborhood_set[me] IN
    IF FirstEmpty(set) # 0
    THEN [s EXCEPT !.neighborhood_set[me][FirstEmpty(set)] = key]
    ELSE IF \E i \in 1 .. Len(set) : set[i] \notin Registered(s)
    THEN [s EXCEPT !.exc = TRUE]
    ELSE LET far == FarthestNeighbor(s, me, 1, <<0 - 1, 0 - 1>>)
         IN IF topological_distance(s.position[me], s.position[key]) < far[1]
            THEN [s EXCEPT !.neighborhood_set[me][far[2]] = key]
            ELSE s

\* initialize_neighborhood_set(close_node_id, close_node_neighborhood_set) at the
\* joining node me.  A DISTANCE request to a peer that is not up returns None and
\* response["distance"] raises; with an empty list idx stays -1 and the final
\* assignment raises IndexError.
initialize_neighborhood_set(s, me, close_node_id, close_set) ==
    LET s1 == [s EXCEPT !.neighborhood_set[me] = close_set] IN
    IF FirstEmpty(close_set) # 0
    THEN [s1 EXCEPT !.neighborhood_set[me][FirstEmpty(close_set)] = close_node_id]
    ELSE IF Len(close_set) = 0 \/ \E i \in 1 .. Len(close_set) : close_set[i] \notin s.up
    THEN [s1 EXCEPT !.exc = TRUE]
    ELSE LET far == FarthestNeighbor(s1, me, 1, <<0 - 1, 0 - 1>>)
         IN [s1 EXCEPT !.neighborhood_set[me][far[2]] = close_node_id]

\* ---------------------------------------------------------------- next hop
\* _in_leaf_set
_in_leaf_set(s, me, id) == InSeq(id, s.Lmin[me]) \/ InSeq(id, s.Lmax[me])

\* _find_closest_leaf_id, lines 865-889: the scan over Lmin then Lmax;
\* acc is <<closest_leaf_id, closest_diff_dig_idx, closest_dist>>
RECURSIVE ClosestLeafScan(_, _, _, _)
ClosestLeafScan(list, key, i, acc) ==
    IF i > Len(list) THEN acc
    ELSE IF list[i] = None THEN ClosestLeafScan(list, key, i + 1, acc)
    ELSE LET d == hex_distance(list[i], key) IN
         IF d[1] > acc[2] \/ (d[1] = acc[2] /\ d[2] < acc[3])
         THEN ClosestLeafScan(list, key, i + 1, <<list[i], d[1], d[2]>>)
         ELSE ClosestLeafScan(list, key, i + 1, acc)

_find_closest_leaf_id(s, me, key) ==
    LET d0 == hex_distance(me, key)
    IN ClosestLeafScan(s.Lmin[me] \o s.Lmax[me], key, 1, <<me, d0[1], d0[2]>>)[1]

\* _is_closer_node accepting a candidate that is as far from the key as the
\* current node (<= for the < of line 947)
_is_closer_node_NotStrict(target_node_id, key, l, curr_node_id) ==
    LET i == common_prefix_length(target_node_id, key)
        t == hex_distance(target_node_id, key)
        c == hex_distance(curr_node_id, key)
    IN /\ i >= l
       /\ \/ t[1] > c[1]
          \/ t[1] = c[1] /\ t[2] <= c[2]

\* _is_closer_node
_is_closer_node(target_node_id, key, l, curr_node_id) ==
    LET i == common_prefix_length(target_node_id, key)
        t == hex_distance(target_node_id, key)
        c == hex_distance(curr_node_id, key)
    IN /\ i >= l
       /\ \/ t[1] > c[1]
          \/ t[1] = c[1] /\ t[2] < c[2]

\* the routing table read row by row, as the scans of lines 918-922 and 676-678 do
RECURSIVE TableEntries(_, _)
TableEntries(rt, r) ==
    IF r >= HASH_HEX_DIGITS THEN <<>>
    ELSE [c \in 1 .. Base |-> rt[r][c - 1]] \o TableEntries(rt, r + 1)

\* _find_closest_node_id_all: the first known node that _is_closer_node accepts,
\* scanning Lmin, Lmax, the neighborhood set and the routing table in this order
_find_closest_node_id_all(s, me, key) ==
    LET l == common_prefix_length(me, key)
        known == s.Lmin[me] \o s.Lmax[me] \o s.neighborhood_set[me]
                    \o TableEntries(s.routing_table[me], 0)
        Good(i) == known[i] # None /\ _is_closer_node(known[i], key, l, me)
    IN IF \E i \in 1 .. Len(known) : Good(i)
       THEN known[CHOOSE i \in 1 .. Len(known) :
                    Good(i) /\ \A j \in 1 .. (i - 1) : ~Good(j)]
       ELSE me

\* what _find_next_hop does when key is this node's own id: the row index
\* common_prefix_length(...) = HASH_HEX_DIGITS is out of range (IndexError)
Raises == 0 - 2

\* _find_next_hop
_find_next_hop(s, me, key) ==
    IF _in_leaf_set(s, me, key) THEN _find_closest_leaf_id(s, me, key)
    ELSE LET i == common_prefix_length(me, key) IN
         IF i >= HASH_HEX_DIGITS THEN Raises
         ELSE IF s.routing_table[me][i][Digit(key, i)] # None
         THEN s.routing_table[me][i][Digit(key, i)]
         ELSE _find_closest_node_id_all(s, me, key)

\* ---------------------------------------------------------------- presence and join
\* the leaf-set part of _handle_update_presence_request, lines 837-846
PresenceLeafUpdate(s, me, key) ==
    IF hex_compare(key, me)
    THEN IF InSeq(key, s.Lmax[me]) THEN s
         ELSE [s EXCEPT !.Lmax[me] =
                    _update_leaf_list(me, s.Lmin[me], s.Lmax[me], s.Lmax[me], key)]
    ELSE IF InSeq(key, s.Lmin[me]) THEN s
         ELSE [s EXCEPT !.Lmin[me] =
                    _update_leaf_list(me, s.Lmin[me], s.Lmax[me], s.Lmin[me], key)]

\* _handle_update_presence_request without the UPDATE_ROUTING_TABLE_ENTRY request
\* of lines 829-835 to the joining node
_handle_update_presence_request_NoReply(s, me, key) ==
    LET s1 == IF InSeq(key, s.neighborhood_set[me]) THEN s
              ELSE _update_neighborhood_set(s, me, key)
        idx == common_prefix_length(key, me)
    IN IF s1.exc THEN s1
       ELSE IF idx >= HASH_HEX_DIGITS THEN [s1 EXCEPT !.exc = TRUE]
       ELSE PresenceLeafUpdate([s1 EXCEPT !.routing_table[me] =
                                    update_routing_table_entry(@, idx, key)],
                               me, key)

\* _handle_update_presence_request at node me for the joining node key.  An
\* exception (KeyError in the neighborhood update, IndexError on the row index
\* when key is me) ends the handler where it is raised.
_handle_update_presence_request(s, me, key) ==
    LET s1 == IF InSeq(key, s.neighborhood_set[me]) THEN s
              ELSE _update_neighborhood_set(s, me, key)
        idx == common_prefix_length(key, me)
    IN IF s1.exc THEN s1
       ELSE IF idx >= HASH_HEX_DIGITS THEN [s1 EXCEPT !.exc = TRUE]
       ELSE LET s2 == [s1 EXCEPT !.routing_table[me] =
                            update_routing_table_entry(@, idx, key)]
                s3 == IF key \in s2.up
                      THEN [s2 EXCEPT !.routing_table[key] =
                                update_routing_table_entry(@, idx, me)]
                      ELSE s2
            IN PresenceLeafUpdate(s3, me, key)

\* a sequence without None and without repetitions, first occurrences kept
RECURSIVE Dedup(_, _)
Dedup(list, seen) ==
    IF list = <<>> THEN <<>>
    ELSE IF Head(list) = None \/ Head(list) \in seen THEN Dedup(Tail(list), seen)
    ELSE <<Head(list)>> \o Dedup(Tail(list), seen \cup {Head(list)})

\* transmit_state, lines 672-685: the peers in the order they are visited
PresenceTargets(s, me) ==
    Dedup(s.neighborhood_set[me] \o TableEntries(s.routing_table[me], 0)
            \o s.Lmin[me] \o s.Lmax[me], {})

\* transmit_state from target i on.  A peer that is not up makes send_request
\* return None and the loop goes on; a peer whose handler raised closes the
\* connection without a reply and pickle.loads raises in the caller.
RECURSIVE TransmitFrom(_, _, _, _)
TransmitFrom(s, me, targets, i) ==
    IF s.exc \/ i > Len(targets) THEN s
    ELSE IF targets[i] \notin s.up THEN TransmitFrom(s, me, targets, i + 1)
    ELSE TransmitFrom(_handle_update_presence_request(s, targets[i], me),
                      me, targets, i + 1)

transmit_state(s, me) == TransmitFrom(s, me, PresenceTargets(s, me), 1)

\* _handle_join_request at node me for joining node x, forwarding included.
\* The result carries the state, the handlers visited and what the first
\* handler returned: "success", "none" (a forward that could not connect),
\* "raised", or "loop" when the forwarding has visited more handlers than there
\* are registered nodes (it would not return).
RECURSIVE _handle_join_request(_, _, _, _)
_handle_join_request(s, me, x, hops) ==
    LET i == common_prefix_length(me, x)
        visited == Append(hops, me)
    IN IF i >= HASH_HEX_DIGITS
       THEN [s |-> [s EXCEPT !.exc = TRUE], status |-> "raised", hops |-> visited]
       ELSE
        LET s1 == IF x \in s.up
                  THEN [s EXCEPT !.routing_table[x] =
                            update_routing_table_row(@, x, i, s.routing_table[me][i])]
                  ELSE s
            next_hop_id == _find_next_hop(s1, me, x)
        IN IF next_hop_id = me
           THEN [s |-> IF x \in s1.up
                       THEN update_leaf_set(s1, x, s1.Lmin[me], s1.Lmax[me], me)
                       ELSE s1,
                 status |-> "success", hops |-> visited]
           ELSE IF next_hop_id \notin s1.up
           THEN [s |-> s1, status |-> "none", hops |-> visited]
           ELSE IF Len(visited) > Len(s.nodes)
           THEN [s |-> s1, status |-> "loop", hops |-> visited]
           ELSE _handle_join_request(s1, next_hop_id, x, visited)

\* ---------------------------------------------------------------- rebuild and leave
\* list.sort(key = ...) with keys[i] the key of list[i]: stable, equal keys keep
\* their order
SortedBy(list, keys) ==
    LET Before(i, j) == keys[i] < keys[j] \/ (keys[i] = keys[j] /\ i < j)
        Rank(i) == Cardinality({j \in 1 .. Len(list) : Before(j, i)}) + 1
    IN [k \in 1 .. Len(list) |-> list[CHOOSE i \in 1 .. Len(list) : Rank(i) = k]]

\* list[:k]
Prefix(list, k) == SubSeq(list, 1, IF Len(list) < k THEN Len(list) ELSE k)

\* list[:k] + [None] * (k - len(list))
PrefixPadded(list, k) ==
    [i \in 1 .. k |-> IF i <= Len(list) THEN list[i] ELSE None]

\* [node_id for node_id in self.network.nodes if node_id != self.node_id]
AvailableNodes(s, me) == SelectSeq(s.nodes, LAMBDA n : n # me)

\* _find_closest_lower_nodes
_find_closest_lower_nodes(me, available_nodes) ==
    LET lower_nodes == SelectSeq(available_nodes, LAMBDA n : n < me)
        dist == [i \in 1 .. Len(lower_nodes) |-> me - lower_nodes[i]]
    IN PrefixPadded(SortedBy(lower_nodes, dist), L \div 2)

\* _find_closest_higher_nodes
_find_closest_higher_nodes(me, available_nodes) ==
    LET higher_nodes == SelectSeq(available_nodes, LAMBDA n : n > me)
        dist == [i \in 1 .. Len(higher_nodes) |-> higher_nodes[i] - me]
    IN PrefixPadded(SortedBy(higher_nodes, dist), L \div 2)

\* the slice of _update_closest_neighbors, line 523
ClosestNeighborsKept == 3

\* _update_closest_neighbors adding the closest nodes to the set the node holds
\* instead of returning a new list
_update_closest_neighbors_Extends(s, me) ==
    LET available_nodes == AvailableNodes(s, me)
        dist == [i \in 1 .. Len(available_nodes) |->
                    Abs(s.position[me] - s.position[available_nodes[i]])]
    IN s.neighborhood_set[me] \o Prefix(SortedBy(available_nodes, dist), ClosestNeighborsKept)

\* _update_closest_neighbors
_update_closest_neighbors(s, me) ==
    LET available_nodes == AvailableNodes(s, me)
        dist == [i \in 1 .. Len(available_nodes) |->
                    Abs(s.position[me] - s.position[available_nodes[i]])]
    IN Prefix(SortedBy(available_nodes, dist), ClosestNeighborsKept)

\* lines 468-473 of _rebuild_node_state: each cell takes the first registered
\* peer that fits it
RebuiltTable(me, available_nodes) ==
    [r \in Rows |-> [c \in Cols |->
        LET Fits(i) == /\ common_prefix_length(me, available_nodes[i]) = r
                       /\ Digit(available_nodes[i], r) = c
        IN IF \E i \in 1 .. Len(available_nodes) : Fits(i)
           THEN available_nodes[CHOOSE i \in 1 .. Len(available_nodes) :
                                    Fits(i) /\ \A j \in 1 .. (i - 1) : ~Fits(j)]
           ELSE None]]

\* _rebuild_node_state
_rebuild_node_state(s, me) ==
    [s EXCEPT !.Lmin[me] = _find_closest_lower_nodes(me, AvailableNodes(s, me)),
              !.Lmax[me] = _find_closest_higher_nodes(me, AvailableNodes(s, me)),
              !.neighborhood_set[me] = _update_closest_neighbors(s, me),
              !.routing_table[me] = RebuiltTable(me, AvailableNodes(s, me))]

\* everything a node holds in its three structures
Known(s, me) ==
    (Range(s.Lmin[me]) \cup Range(s.Lmax[me]) \cup Range(s.neighborhood_set[me])
        \cup {s.routing_table[me][r][c] : r \in Rows, c \in Cols}) \ {None}

\* the rebuild loop of leave, lines 624-626, over the affected nodes still to do
RECURSIVE RebuildAll(_, _)
RebuildAll(s, todo) ==
    IF todo = {} THEN s
    ELSE LET n == CHOOSE m \in todo : TRUE
         IN RebuildAll(_rebuild_node_state(s, n), todo \ {n})

\* leave at node me.  The NODE_LEAVE requests of lines 605-613 are handed the
\* node object where send_request expects a port: connect raises inside the try,
\* send_request returns None and no peer receives anything.  The node is then
\* deleted from network.nodes and the nodes it listed are rebuilt in place.
leave(s, me) ==
    LET affected_nodes == Known(s, me)
        s1 == [s EXCEPT !.nodes = SelectSeq(s.nodes, LAMBDA n : n # me)]
    IN RebuildAll(s1, affected_nodes \cap Registered(s1))

\* ---------------------------------------------------------------- coordinator
\* self.kd_tree = None of the constructor; a built tree holds its records in the
\* order they were added
NoTree == [built |-> FALSE, records |-> <<>>]

\* What the last operation gave back.  op and node name the operation and the
\* node it was issued for, key its key and args its other arguments; status is
\* the "status" of the response dict, "none" when the call returned None and
\* "raised" when an exception left the handler; fields are the keys of the
\* response dict; found is the count the message of a lookup reports; hops lists
\* the handlers that ran, in order; failed is the peer a send could not connect
\* to; returned is the value under "hops" of the response dict (empty when the
\* dict has no such key).
Response(op, node, key, args, status, hops, failed, fields, found) ==
    [op |-> op, node |-> node, key |-> key, args |-> args, status |-> status,
     hops |-> hops, failed |-> failed, fields |-> fields, found |-> found,
     returned |-> <<>>]

NoResponse == Response("none", None, None, <<>>, "none", <<>>, None, {}, None)

\* a worker thread of the pool that is handling nothing and has answered done
\* INSERT_KEY requests with success
Idle(done) ==
    [pc |-> "idle", node |-> None, built |-> FALSE, country |-> "", done |-> done]

Init ==
    /\ nodes = <<>>
    /\ used_ports = <<>>
    /\ up = {}
    /\ position = <<>>
    /\ routing_table = <<>>
    /\ Lmin = <<>>
    /\ Lmax = <<>>
    /\ neighborhood_set = <<>>
    /\ kd_tree = <<>>
    /\ servers = <<>>
    /\ constructing = [t \in Threads |-> [pc |-> "idle", port |-> None]]
    /\ handling = [t \in Threads |-> Idle(0)]
    /\ resp = NoResponse

\* the state after an operation that worked on the record s
Commit(s) ==
    /\ nodes' = s.nodes
    /\ up' = s.up
    /\ position' = s.position
    /\ routing_table' = s.routing_table
    /\ Lmin' = s.Lmin
    /\ Lmax' = s.Lmax
    /\ neighborhood_set' = s.neighborhood_set

\* PastryNode(network, node_id), start_server, and the registration of the node
\* with its position at the coordinator
Constructed(s, x, p) ==
    [s EXCEPT !.nodes = Append(s.nodes, x),
              !.up = s.up \cup {x},
              !.position = With(s.position, x, p),
              !.routing_table = With(s.routing_table, x, EmptyTable),
              !.Lmin = With(s.Lmin, x, EmptyLeaf),
              !.Lmax = With(s.Lmax, x, EmptyLeaf),
              !.neighborhood_set = With(s.neighborhood_set, x, EmptyNeighborhood)]

\* the live peer topologically nearest to x, found with DISTANCE requests
ClosestLivePeer(s, x) ==
    CHOOSE a \in (Registered(s) \cap s.up) \ {x} :
        \A o \in (Registered(s) \cap s.up) \ {x} :
            \/ topological_distance(s.position[a], s.position[x])
                 < topological_distance(s.position[o], s.position[x])
            \/ /\ topological_distance(s.position[a], s.position[x])
                    = topological_distance(s.position[o], s.position[x])
               /\ a <= o

\* network.node_join(new_node): register, copy the neighborhood set of the
\* nearest live peer A, route NODE_JOIN from A, broadcast the presence.  An
\* exception on the way ends the join where it is raised.
node_join(s, x, p) ==
    LET s0 == Constructed(s, x, p) IN
    IF (Registered(s) \cap s.up) = {}
    THEN [s |-> s0, status |-> "success", hops |-> <<>>]
    ELSE LET a == ClosestLivePeer(s0, x)
             s1 == initialize_neighborhood_set(s0, x, a, s0.neighborhood_set[a])
         IN IF s1.exc THEN [s |-> s1, status |-> "raised", hops |-> <<>>]
            ELSE LET j == _handle_join_request(s1, a, x, <<>>)
                 IN IF j.status \in {"raised", "loop"} THEN j
                    ELSE LET s3 == transmit_state(j.s, x)
                         IN [s |-> s3,
                             status |-> IF s3.exc THEN "raised" ELSE j.status,
                             hops |-> j.hops]

\* network.leave(node_id): the node's leave(), after which its server is gone
network_leave(s, y) ==
    LET s1 == leave(s, y)
    IN [s1 EXCEPT !.up = s1.up \ {y},
                  !.position = Without(s1.position, y),
                  !.routing_table = Without(s1.routing_table, y),
                  !.Lmin = Without(s1.Lmin, y),
                  !.Lmax = Without(s1.Lmax, y),
                  !.neighborhood_set = Without(s1.neighborhood_set, y)]

TakenPositions == {position[n] : n \in Range(nodes)}

\* _generate_port: a port not in network.used_ports, appended to it; the model
\* numbers the ports in the order they are taken
_generate_port == Len(used_ports) + 1

\* start_server of one more node object with id x
Started(running, x) ==
    With(running, x, IF x \in DOMAIN running THEN running[x] + 1 ELSE 1)

\* a node is constructed, its server started, and it joins at position p
Join(x, p) ==
    LET j == node_join(Snapshot, x, p)
    IN /\ used_ports' = Append(used_ports, _generate_port)
       /\ servers' = Started(servers, x)
       /\ Commit([j.s EXCEPT !.exc = FALSE])
       /\ kd_tree' = With(kd_tree, x, NoTree)
       /\ UNCHANGED <<constructing, handling>>
       /\ resp' = Response("NODE_JOIN", x, x, <<>>, j.status, j.hops, None, {}, None)

NodeJoin ==
    \E x \in NodeIds \ Range(nodes), p \in Positions \ TakenPositions :
        /\ Len(used_ports) < MaxNodes
        /\ Join(x, p)

\* a registered node leaves gracefully
NodeLeave ==
    \E y \in Range(nodes) :
        /\ Commit(network_leave(Snapshot, y))
        /\ UNCHANGED <<used_ports, constructing, handling>>
        /\ servers' = Without(servers, y)
        /\ kd_tree' = Without(kd_tree, y)
        /\ resp' = Response("NODE_LEAVE", y, y, <<>>, "none", <<>>, None, {}, None)

Next == NodeJoin \/ NodeLeave

Spec == Init /\ [][Next]_vars

\* ---------------------------------------------------------------- keyed requests
\* Keys the specifications route: 0x1200 (as far from 0x1100 as from 0x1300),
\* 0x1300 (also the id of a node) and 0x1fff.
Keys == {4608, 4864, 8191}

\* The routing part shared by _handle_insert_key_request, _handle_delete_key_request,
\* _handle_lookup_request and _handle_update_key_request: the next hop is computed
\* first; the node serves the request itself when the key is one of its leaves or
\* the next hop is the node; otherwise it forwards and returns what comes back.
\* status is "local" with the serving node in terminal, "none" when the forward
\* could not connect (failed names the peer), "raised" when _find_next_hop
\* raised, "loop" when the
\* forwarding has visited more handlers than there are registered nodes.
RECURSIVE RouteKeyed(_, _, _, _)
RouteKeyed(s, me, key, hops) ==
    LET visited == Append(hops, me)
        next_hop_id == _find_next_hop(s, me, key)
    IN IF next_hop_id = Raises
       THEN [status |-> "raised", terminal |-> None, hops |-> visited, failed |-> None]
       ELSE IF _in_leaf_set(s, me, key) \/ next_hop_id = me
       THEN [status |-> "local", terminal |-> me, hops |-> visited, failed |-> None]
       ELSE IF next_hop_id \notin s.up
       THEN [status |-> "none", terminal |-> None, hops |-> visited,
             failed |-> next_hop_id]
       ELSE IF Len(visited) > Len(s.nodes)
       THEN [status |-> "loop", terminal |-> None, hops |-> visited, failed |-> None]
       ELSE RouteKeyed(s, next_hop_id, key, visited)

\* the live nodes a request can be issued at
Live == Range(nodes) \cap up

\* joins only
NextJoin == NodeJoin

SpecJoin == Init /\ [][NextJoin]_vars

\* ---------------------------------------------------------------- stored records
\* countries of the data set and their keys (the first HASH_HEX_DIGITS hex digits
\* of the SHA-1 of the name): 0x1200 and 0x1fff, and a third country whose key
\* 0x1300 is also the id of a node
Countries == {"Kenya", "Peru"}

hash_key(country) ==
    IF country = "Kenya" THEN 4608 ELSE IF country = "Peru" THEN 8191 ELSE 4864

\* points [review_date, rating, price] and reviews
Points == {<<2018, 90, 4>>, <<2019, 94, 5>>}

Reviews == {"bright"}

\* records the network may hold at a time
MaxRecords == 2

Stored == Cardinality({<<n, i>> \in Range(nodes) \X (1 .. MaxRecords) :
                           i <= Len(kd_tree[n].records)})

\* KDTree(points, reviews, country_keys) with the first record
KDTree(point, review, country_key) ==
    [built |-> TRUE,
     records |-> <<[country_key |-> country_key, point |-> point, review |-> review]>>]

\* KDTree.add_point: the record is appended and the tree rebuilt
add_point(tree, point, review, country_key) ==
    [tree EXCEPT !.records =
        Append(@, [country_key |-> country_key, point |-> point, review |-> review])]

Max3(x, y, z) ==
    IF x >= y /\ x >= z THEN x ELSE IF y >= z THEN y ELSE z

\* KDTree.search: the points within the sphere around the middle of the box whose
\* radius is the largest half extent, filtered by the box.  Coordinates are
\* doubled so that the middle stays an integer.
search(tree, lower_bounds, upper_bounds) ==
    LET extent == Max3(upper_bounds[1] - lower_bounds[1],
                       upper_bounds[2] - lower_bounds[2],
                       upper_bounds[3] - lower_bounds[3])
        Off(pt, i) == 2 * pt[i] - (lower_bounds[i] + upper_bounds[i])
        InSphere(pt) ==
            Off(pt, 1) * Off(pt, 1) + Off(pt, 2) * Off(pt, 2) + Off(pt, 3) * Off(pt, 3)
                <= extent * extent
        InBox(pt) ==
            \A i \in 1 .. 3 : lower_bounds[i] <= pt[i] /\ pt[i] <= upper_bounds[i]
    IN SelectSeq(tree.records, LAMBDA rec : InSphere(rec.point) /\ InBox(rec.point))

\* the keys of the response dict of the insert, delete and lookup handlers
StatusMessage == {"status", "message"}

\* _handle_insert_key_request, from the node the request is issued at
_handle_insert_key_request(s, trees, start, key, point, review, country) ==
    LET country_key == hash_key(country)
        r == RouteKeyed(s, start, key, <<>>)
        Reply(status, fields) ==
            Response("INSERT_KEY", start, key, <<point, review>>, status, r.hops,
                     r.failed, fields, None)
    IN IF r.status = "local"
       THEN [trees |-> [trees EXCEPT ![r.terminal] =
                            IF ~ @.built
                            THEN KDTree(point, review, country_key)
                            ELSE add_point(@, point, review, country_key)],
             resp |-> Reply("success", StatusMessage)]
       ELSE [trees |-> trees, resp |-> Reply(r.status, {})]

\* _handle_lookup_request, from the node the request is issued at.  The vectorizer
\* raises on an empty list of reviews; the response carries the status and the
\* message with the number of matching points.
_handle_lookup_request(s, trees, start, key, lower_bounds, upper_bounds) ==
    LET r == RouteKeyed(s, start, key, <<>>)
        Reply(status, fields, found) ==
            Response("LOOKUP", start, key, <<lower_bounds, upper_bounds>>, status,
                     r.hops, r.failed, fields, found)
    IN IF r.status = "local"
       THEN IF ~ trees[r.terminal].built \/ Len(trees[r.terminal].records) = 0
            THEN Reply("failure", StatusMessage, None)
            ELSE LET matching == search(trees[r.terminal], lower_bounds, upper_bounds)
                 IN IF Len(matching) = 0
                    THEN Reply("raised", {}, None)
                    ELSE Reply("success", StatusMessage, Len(matching))
       ELSE Reply(r.status, {}, None)

\* ---------------------------------------------------------------- data operations
\* identifiers of the nodes holding data; a node takes the next free position
DataIds == {4352, 4864, 8192}

MaxDataNodes == 3

DataJoin ==
    \E x \in DataIds \ Range(nodes) :
        /\ Len(used_ports) < MaxDataNodes
        /\ Join(x, Len(used_ports))

\* node.insert_key(key, point, review, country) at a live node, with the key of
\* the country
InsertKey ==
    \E start \in Live, country \in Countries, point \in Points, review \in Reviews :
        LET o == _handle_insert_key_request(Snapshot, kd_tree, start, hash_key(country),
                                            point, review, country)
        IN /\ Stored < MaxRecords
           /\ kd_tree' = o.trees
           /\ resp' = o.resp
           /\ UNCHANGED <<nodes, used_ports, up, position, routing_table, Lmin, Lmax,
                          neighborhood_set, servers, constructing, handling>>

\* node.lookup(key, lower_bounds, upper_bounds, N) at a live node
Lookup ==
    \E start \in Live, country \in Countries, lower \in Points, upper \in Points :
        /\ \A i \in 1 .. 3 : lower[i] <= upper[i]
        /\ resp' = _handle_lookup_request(Snapshot, kd_tree, start, hash_key(country),
                                          lower, upper)
        /\ UNCHANGED <<nodes, used_ports, up, position, routing_table, Lmin, Lmax,
                       neighborhood_set, kd_tree, servers, constructing, handling>>

NextData == DataJoin \/ NodeLeave \/ InsertKey \/ Lookup

SpecData == Init /\ [][NextData]_vars

\* ---------------------------------------------------------------- a long route
\* ten nodes 0x1000, 0x2000, ... 0xa000 joining in this order, each one position
\* after the one before
ChainIds == <<4096, 8192, 12288, 16384, 20480, 24576, 28672, 32768, 36864, 40960>>

\* 0xf000, 0x0100 and 0x5fff
ChainKeys == {61440, 256, 24575}

ChainJoin ==
    /\ Len(nodes) < Len(ChainIds)
    /\ Join(ChainIds[Len(nodes) + 1], Len(nodes))

ChainLookup ==
    \E start \in Live, key \in ChainKeys, point \in Points :
        /\ resp' = _handle_lookup_request(Snapshot, kd_tree, start, key, point, point)
        /\ UNCHANGED <<nodes, used_ports, up, position, routing_table, Lmin, Lmax,
                       neighborhood_set, kd_tree, servers, constructing, handling>>

NextChain == ChainJoin \/ ChainLookup

SpecChain == Init /\ [][NextChain]_vars

\* ---------------------------------------------------------------- unexpected leave
\* network.leave_unexpected: the node stops serving without telling anyone; it
\* stays in the registry, marked not running
LeaveUnexpected ==
    \E y \in Live :
        /\ up' = up \ {y}
        /\ servers' = Without(servers, y)
        /\ resp' = Response("LEAVE_UNEXPECTED", y, y, <<>>, "none", <<>>, None, {}, None)
        /\ UNCHANGED <<nodes, used_ports, position, routing_table, Lmin, Lmax,
                       neighborhood_set, kd_tree, constructing, handling>>

NextFail == DataJoin \/ LeaveUnexpected \/ Lookup

SpecFail == Init /\ [][NextFail]_vars

\* ---------------------------------------------------------------- update, delete
\* KDTree.country_keys
country_keys(tree) == {tree.records[i].country_key : i \in 1 .. Len(tree.records)}

\* KDTree.delete_points(country_key): every record tagged with the key goes
delete_points(tree, country_key) ==
    [tree EXCEPT !.records = SelectSeq(@, LAMBDA rec : rec.country_key # country_key)]

\* KDTree.update_points(country_key, criteria = None, update_fields = {review}):
\* every record tagged with the key takes the new review
update_points(tree, country_key, review) ==
    [tree EXCEPT !.records =
        [i \in 1 .. Len(@) |-> IF @[i].country_key = country_key
                               THEN [@[i] EXCEPT !.review = review]
                               ELSE @[i]]]

\* the request's hops list after the handlers in visited ran: update_key starts
\* it empty and calls the first handler directly, _handle_update_key_request
\* appends its node, and _handle_request appends the node of every handler
\* reached over a connection before the handler appends it again
RECURSIVE RequestHops(_)
RequestHops(visited) ==
    IF Len(visited) <= 1 THEN visited
    ELSE RequestHops(SubSeq(visited, 1, Len(visited) - 1))
            \o <<visited[Len(visited)], visited[Len(visited)]>>

\* _handle_delete_key_request at the node the route r of the request ends at
DeleteAtTerminal(trees, start, key, r) ==
    LET Reply(status, fields) ==
            Response("DELETE_KEY", start, key, <<>>, status, r.hops, r.failed,
                     fields, None)
    IN IF r.status = "local"
       THEN IF ~ trees[r.terminal].built
            THEN [trees |-> trees, resp |-> Reply("failure", StatusMessage)]
            ELSE IF key \in country_keys(trees[r.terminal])
            THEN [trees |-> [trees EXCEPT ![r.terminal] = delete_points(@, key)],
                  resp |-> Reply("success", StatusMessage)]
            ELSE [trees |-> trees, resp |-> Reply("failure", StatusMessage)]
       ELSE [trees |-> trees, resp |-> Reply(r.status, {})]

\* _handle_delete_key_request, from the node the request is issued at
_handle_delete_key_request(s, trees, start, key) ==
    DeleteAtTerminal(trees, start, key, RouteKeyed(s, start, key, <<>>))

\* _handle_update_key_request at the node the route r of the request ends at
UpdateAtTerminal(trees, start, key, review, r) ==
    LET Reply(status, fields, returned) ==
            [Response("UPDATE_KEY", start, key, <<review>>, status, r.hops, r.failed,
                      fields, None) EXCEPT !.returned = returned]
        hops == RequestHops(r.hops)
    IN IF r.status = "local"
       THEN IF trees[r.terminal].built /\ key \in country_keys(trees[r.terminal])
            THEN [trees |-> [trees EXCEPT ![r.terminal] = update_points(@, key, review)],
                  resp |-> Reply("success", StatusMessage \cup {"hops"}, hops)]
            ELSE [trees |-> trees,
                  resp |-> Reply("failure", StatusMessage \cup {"hops"}, hops)]
       ELSE [trees |-> trees, resp |-> Reply(r.status, {}, <<>>)]

\* _handle_update_key_request, from the node the request is issued at
_handle_update_key_request(s, trees, start, key, review) ==
    UpdateAtTerminal(trees, start, key, review, RouteKeyed(s, start, key, <<>>))

\* ---------------------------------------------------------------- malformed requests
\* requests a peer may send: an operation name _handle_request does not know, no
\* "operation" key, INSERT_KEY without "key" or without "point", UPDATE_PRESENCE
\* without "joining_node_id"
MalformedRequests ==
    {"unknown_operation", "no_operation", "no_key", "no_point", "no_joining_node_id"}

\* _handle_request for such a request: the unknown operation is answered with a
\* failure record; a missing key raises KeyError inside the try, the except clause
\* prints, nothing is sent and the connection is closed
_handle_request(request) ==
    IF request = "unknown_operation"
    THEN [sent |-> TRUE, status |-> "failure", fields |-> StatusMessage]
    ELSE [sent |-> FALSE, status |-> "none", fields |-> {}]

\* send_request to a live peer: recv returns the answer, or the empty string when
\* the peer closed the connection without one, and pickle.loads of it raises
send_request(to, request) ==
    LET answer == _handle_request(request)
    IN IF answer.sent
       THEN Response(request, to, None, <<>>, answer.status, <<to>>, None,
                     answer.fields, None)
       ELSE Response(request, to, None, <<>>, "raised", <<to>>, None, {}, None)

\* ---------------------------------------------------------------- all keyed operations
\* a network of at most two nodes, 0x1100 and 0x1300, with the three countries
OpsIds == {4352, 4864}

OpsCountries == Countries \cup {"Chile"}

OpsPoint == <<2018, 90, 4>>

Membership == <<nodes, used_ports, up, position, routing_table, Lmin, Lmax,
                neighborhood_set, servers, constructing, handling>>

OpsJoin ==
    \E x \in OpsIds \ Range(nodes) : Join(x, Len(used_ports))

\* the state after a handled request when the node the request was issued at
\* also rebuilds its tables from the registry
Outcome_Rebuilds(o) ==
    /\ kd_tree' = o.trees
    /\ resp' = o.resp
    /\ Commit(_rebuild_node_state(Snapshot, o.resp.node))
    /\ UNCHANGED <<used_ports, servers, constructing, handling>>

\* the trees and the response an operation leaves; the membership stays
Outcome(o) ==
    /\ kd_tree' = o.trees
    /\ resp' = o.resp
    /\ UNCHANGED Membership

OpsInsert ==
    \E start \in Live, country \in OpsCountries, review \in Reviews :
        /\ Stored < MaxRecords
        /\ Outcome(_handle_insert_key_request(Snapshot, kd_tree, start, hash_key(country),
                                              OpsPoint, review, country))

OpsLookup ==
    \E start \in Live, country \in OpsCountries :
        /\ resp' = _handle_lookup_request(Snapshot, kd_tree, start, hash_key(country),
                                          OpsPoint, OpsPoint)
        /\ UNCHANGED <<Membership, kd_tree>>

\* node.update_key(key, {review: "revised"}) at a live node
UpdateKey ==
    \E start \in Live, country \in OpsCountries :
        Outcome(_handle_update_key_request(Snapshot, kd_tree, start, hash_key(country),
                                           "revised"))

\* node.delete_key(key) at a live node
DeleteKey ==
    \E start \in Live, country \in OpsCountries :
        Outcome(_handle_delete_key_request(Snapshot, kd_tree, start, hash_key(country)))

\* a live node is sent a malformed request
Malformed ==
    \E to \in Live, request \in MalformedRequests :
        /\ resp' = send_request(to, request)
        /\ UNCHANGED <<Membership, kd_tree>>

NextOps == OpsJoin \/ OpsInsert \/ OpsLookup \/ UpdateKey \/ DeleteKey \/ Malformed

SpecOps == Init /\ [][NextOps]_vars

\* ---------------------------------------------------------------- an id given twice
\* node_join_gui with the id of a registered node: PastryNode(network, node_id)
\* takes a port, start_server starts the new object's server, and only then
\* network.node_join is called, which turns the node away
CreateExisting ==
    \E x \in Range(nodes) :
        /\ Len(used_ports) < MaxNodes
        /\ used_ports' = Append(used_ports, _generate_port)
        /\ servers' = Started(servers, x)
        /\ resp' = Response("NODE_JOIN", x, x, <<>>, "failure", <<>>, None,
                            StatusMessage, None)
        /\ UNCHANGED <<nodes, up, position, routing_table, Lmin, Lmax,
                       neighborhood_set, kd_tree, constructing, handling>>

NextCreate == NodeJoin \/ CreateExisting

SpecCreate == Init /\ [][NextCreate]_vars

\* ---------------------------------------------------------------- concurrent constructors
\* np.random.randint(1024, 65535): the model draws from the first ports of the
\* range, one more than the nodes constructed in a run
FirstPort == 1024

PortPool == FirstPort .. (FirstPort + MaxNodes)

\* _generate_port, lines 57-61, in thread t: a port is drawn until one is not in
\* network.used_ports
PortCheck(t) ==
    /\ constructing[t].pc = "idle"
    /\ Len(used_ports) < MaxNodes
    /\ \E port \in PortPool \ Range(used_ports) :
           constructing' = [constructing EXCEPT ![t] = [pc |-> "checked", port |-> port]]
    /\ UNCHANGED <<nodes, used_ports, up, position, routing_table, Lmin, Lmax,
                   neighborhood_set, kd_tree, servers, handling, resp>>

\* _generate_port, lines 62-63, in thread t: the port is appended and becomes the
\* port of the node under construction
PortAppend(t) ==
    /\ constructing[t].pc = "checked"
    /\ used_ports' = Append(used_ports, constructing[t].port)
    /\ constructing' = [constructing EXCEPT ![t] = [pc |-> "idle", port |-> None]]
    /\ UNCHANGED <<nodes, up, position, routing_table, Lmin, Lmax,
                   neighborhood_set, kd_tree, servers, handling, resp>>

NextPorts == \E t \in Threads : PortCheck(t) \/ PortAppend(t)

SpecPorts == Init /\ [][NextPorts]_vars

\* ---------------------------------------------------------------- a leaf list offered a candidate
\* one node with every content its two lists can have over the ids around it,
\* offered every one of those ids
LeafNode == 4944

LowerIds == {4928, 4880, 4608, 3840}

UpperIds == {4960, 5008, 5120, 8192}

LeafLists(ids) ==
    {list \in [1 .. (L \div 2) -> ids \cup {None}] :
        \A i, j \in 1 .. (L \div 2) : (list[i] = list[j] /\ list[i] # None) => i = j}

InitLeaf ==
    /\ nodes = <<LeafNode>>
    /\ used_ports = <<1>>
    /\ up = {LeafNode}
    /\ position = With(<<>>, LeafNode, 1)
    /\ routing_table = With(<<>>, LeafNode, EmptyTable)
    /\ Lmin \in {With(<<>>, LeafNode, list) : list \in LeafLists(LowerIds)}
    /\ Lmax \in {With(<<>>, LeafNode, list) : list \in LeafLists(UpperIds)}
    /\ neighborhood_set = With(<<>>, LeafNode, EmptyNeighborhood)
    /\ kd_tree = With(<<>>, LeafNode, NoTree)
    /\ servers = With(<<>>, LeafNode, 1)
    /\ constructing = [t \in Threads |-> [pc |-> "idle", port |-> None]]
    /\ handling = [t \in Threads |-> Idle(0)]
    /\ resp = NoResponse

\* self._update_leaf_list(self.Lmin, key); resp.args keeps the two lists as they
\* were before the call
OfferLmin ==
    \E key \in LowerIds \cup UpperIds :
        /\ Lmin' = [Lmin EXCEPT ![LeafNode] =
                       _update_leaf_list(LeafNode, Lmin[LeafNode], Lmax[LeafNode],
                                         Lmin[LeafNode], key)]
        /\ resp' = Response("OFFER_LMIN", LeafNode, key,
                            <<Lmin[LeafNode], Lmax[LeafNode]>>, "none", <<>>, None,
                            {}, None)
        /\ UNCHANGED <<nodes, used_ports, up, position, routing_table, Lmax,
                       neighborhood_set, kd_tree, servers, constructing, handling>>

\* self._update_leaf_list(self.Lmax, key)
OfferLmax ==
    \E key \in LowerIds \cup UpperIds :
        /\ Lmax' = [Lmax EXCEPT ![LeafNode] =
                       _update_leaf_list(LeafNode, Lmin[LeafNode], Lmax[LeafNode],
                                         Lmax[LeafNode], key)]
        /\ resp' = Response("OFFER_LMAX", LeafNode, key,
                            <<Lmin[LeafNode], Lmax[LeafNode]>>, "none", <<>>, None,
                            {}, None)
        /\ UNCHANGED <<nodes, used_ports, up, position, routing_table, Lmin,
                       neighborhood_set, kd_tree, servers, constructing, handling>>

NextLeaf == OfferLmin \/ OfferLmax

SpecLeaf == InitLeaf /\ [][NextLeaf]_vars

\* ---------------------------------------------------------------- two workers of one pool
\* _server hands every accepted connection to the pool of the node
\* (thread_pool.submit, max_workers = 10); _handle_insert_key_request takes no
\* lock.  A worker handling INSERT_KEY at the node that stores the key first
\* tests `if not self.kd_tree` (line 261) and then builds a tree or adds to it.
InFlight == Cardinality({t \in Threads : handling[t].pc # "idle"})

Completed == Cardinality({<<t, i>> \in Threads \X (1 .. MaxRecords) : i <= handling[t].done})

\* lines 250-261 in worker t of node n: the request is read, the node finds
\* itself responsible and tests self.kd_tree
InsertTest(t) ==
    \E n \in Live, country \in Countries :
        /\ handling[t].pc = "idle"
        /\ Stored + InFlight < MaxRecords
        /\ RouteKeyed(Snapshot, n, hash_key(country), <<>>).status = "local"
        /\ handling' = [handling EXCEPT ![t] =
                           [pc |-> "tested", node |-> n, built |-> kd_tree[n].built,
                            country |-> country, done |-> @.done]]
        /\ UNCHANGED <<nodes, used_ports, up, position, routing_table, Lmin, Lmax,
                       neighborhood_set, kd_tree, servers, constructing, resp>>

\* lines 262-282 in worker t: the branch chosen by the test runs and the worker
\* answers
InsertStore(t) ==
    LET h == handling[t]
        country_key == hash_key(h.country)
    IN /\ h.pc = "tested"
       /\ kd_tree' = [kd_tree EXCEPT ![h.node] =
                         IF ~ h.built
                         THEN KDTree(OpsPoint, "bright", country_key)
                         ELSE add_point(@, OpsPoint, "bright", country_key)]
       /\ handling' = [handling EXCEPT ![t] = Idle(h.done + 1)]
       /\ resp' = Response("INSERT_KEY", h.node, country_key, <<OpsPoint, "bright">>,
                           "success", <<h.node>>, None, StatusMessage, None)
       /\ UNCHANGED <<nodes, used_ports, up, position, routing_table, Lmin, Lmax,
                      neighborhood_set, servers, constructing>>

\* the nodes join while no request is in flight
RaceJoin ==
    /\ InFlight = 0
    /\ OpsJoin

NextRace == RaceJoin \/ \E t \in Threads : InsertTest(t) \/ InsertStore(t)

SpecRace == Init /\ [][NextRace]_vars

\* ---------------------------------------------------------------- message sizes
\* conn.recv(1024) of _handle_request and s.recv(1024) of send_request
RecvBuffer == 1024

\* sizes in bytes of the pickled requests and responses of the runs, up to 64 KiB
MessageSizes == {100, 1024, 1025, 4096, 65536}

\* one call of recv on a connection on which size bytes were sent: at most the
\* buffer's size is returned
recv(size) == IF size <= RecvBuffer THEN size ELSE RecvBuffer

\* send_request of a request of request_size bytes to the live node `to`, whose
\* handler answers with response_size bytes.  pickle.loads raises on a message
\* that is not whole: in the handler the except clause prints and nothing is
\* sent back, in send_request the exception leaves the call.  resp.args holds
\* the two sizes, the bytes the handler decoded and the bytes the caller decoded
\* (0 when pickle.loads raised).
SendSized ==
    \E to \in Live, request_size \in MessageSizes, response_size \in MessageSizes :
        LET handled == recv(request_size) = request_size
            answered == handled /\ recv(response_size) = response_size
        IN /\ resp' = Response("SEND", to, None,
                               <<request_size, response_size,
                                 IF handled THEN request_size ELSE 0,
                                 IF answered THEN response_size ELSE 0>>,
                               IF answered THEN "success" ELSE "raised",
                               IF handled THEN <<to>> ELSE <<>>, None, {}, None)
           /\ UNCHANGED <<Membership, kd_tree>>

NextWire == OpsJoin \/ SendSized

SpecWire == Init /\ [][NextWire]_vars

\* ---------------------------------------------------------------- Chord: node_join
\* ids of the Chord runs: 0x1000, 0x2000, ... 0x5000
ChordIds == {4096, 8192, 12288, 16384, 20480}

\* ChordNetwork.node_join(new_node) on the registry `registry`: the node is
\* registered; the first node returns at the bare `return` of line 29, every
\* other node joins on its successor and the method ends without a return
\* statement.  status is "none" for a call that returned None, hops the list
\* the call returned.
ChordNetwork_node_join(registry, node_id) ==
    LET registered == Append(registry, node_id)
    IN IF Len(registered) = 1
       THEN [nodes |-> registered, status |-> "none", hops |-> <<>>]
       ELSE [nodes |-> registered, status |-> "none", hops |-> <<>>]

\* demo.py, lines 108-111: ChordNode(network, node_id), start_server, node_join
ChordJoin ==
    \E node_id \in ChordIds \ Range(nodes) :
        LET j == ChordNetwork_node_join(nodes, node_id)
        IN /\ nodes' = j.nodes
           /\ up' = up \cup {node_id}
           /\ resp' = [Response("CHORD_NODE_JOIN", node_id, node_id, <<>>, j.status,
                                <<>>, None, {}, None) EXCEPT !.returned = j.hops]
           /\ UNCHANGED <<used_ports, position, routing_table, Lmin, Lmax,
                          neighborhood_set, kd_tree, servers, constructing, handling>>

SpecChord == Init /\ [][ChordJoin]_vars

\* ---------------------------------------------------------------- ids around 0x1000
\* 0x0f00, 0x1100, 0x1350, 0x1fff and 0x2000 joining in any order, each one
\* position after the one before: ids that are near in value and differ in the
\* first digit
BorderIds == {3840, 4352, 4944, 8191, 8192}

BorderJoin ==
    \E x \in BorderIds \ Range(nodes) :
        /\ Len(used_ports) < MaxNodes
        /\ Join(x, Len(used_ports))

SpecBorder == Init /\ [][BorderJoin]_vars

\* ---------------------------------------------------------------- requests after node.leave()
\* keys of the requests issued after a leave (0x1200, 0x2100)
GoneKeys == {4608, 8448}

\* the nodes that have left: constructed and no longer registered
Gone == (DOMAIN position) \ Range(nodes)

GoneJoin ==
    \E x \in NodeIds \ DOMAIN position :
        /\ Gone = {}
        /\ Len(used_ports) < MaxNodes
        /\ Join(x, Len(used_ports))

\* node.leave() of a registered node y: y is deleted from network.nodes and the
\* nodes it lists are rebuilt; _server of y (while True: accept, lines 123-128)
\* keeps running and y keeps its tables and its tree
LeaveNode ==
    \E y \in Range(nodes) :
        /\ Gone = {}
        /\ Commit(leave(Snapshot, y))
        /\ resp' = Response("NODE_LEAVE", y, y, <<>>, "none", <<>>, None, {}, None)
        /\ UNCHANGED <<used_ports, kd_tree, servers, constructing, handling>>

\* node.insert_key(key, point, review, country) at a registered live node, while
\* no node holds a record
GoneInsert ==
    \E start \in Live, key \in GoneKeys :
        /\ \A n \in DOMAIN kd_tree : ~ kd_tree[n].built
        /\ Outcome(_handle_insert_key_request(Snapshot, kd_tree, start, key,
                                              OpsPoint, "bright", "Kenya"))

\* node.lookup(key, lower_bounds, upper_bounds) at a registered live node
GoneLookup ==
    \E start \in Live, key \in GoneKeys :
        /\ resp' = _handle_lookup_request(Snapshot, kd_tree, start, key,
                                          OpsPoint, OpsPoint)
        /\ UNCHANGED <<Membership, kd_tree>>

NextGone == GoneJoin \/ LeaveNode \/ GoneInsert \/ GoneLookup

SpecGone == Init /\ [][NextGone]_vars

\* ---------------------------------------------------------------- worker pools
\* workers in the pool of a node (ThreadPoolExecutor(max_workers = 10) in the
\* code; the model gives every node PoolSize workers)
PoolSize == 1

\* keys of the lookups (0x1110, 0x1200, 0x1310)
PoolKeys == {4368, 4608, 4880}

\* client thread t has sent a LOOKUP for key; the connection is accepted at node
\* at, where the request waits for a worker; path lists the nodes whose workers
\* are blocked in send_request, waiting for the answer to this request
Waiting(path, at, key) ==
    [pc |-> "queued", node |-> at, path |-> path, key |-> key]

\* the workers of node n that are taken: each is blocked in send_request
Busy(n) ==
    Cardinality({<<t, i>> \in Threads \X (1 .. MaxNodes) :
                    /\ handling[t].pc = "queued"
                    /\ i <= Len(handling[t].path)
                    /\ handling[t].path[i] = n})

\* nodes join while no request is under way
PoolJoin ==
    /\ \A t \in Threads : handling[t].pc = "idle"
    /\ OpsJoin

\* a client sends a LOOKUP to a live node: _server accepts the connection and
\* submits it to the pool
PoolSend(t) ==
    \E start \in Live, key \in PoolKeys :
        /\ handling[t].pc = "idle"
        /\ handling' = [handling EXCEPT ![t] = Waiting(<<>>, start, key)]
        /\ UNCHANGED <<nodes, used_ports, up, position, routing_table, Lmin, Lmax,
                       neighborhood_set, kd_tree, servers, constructing, resp>>

\* a free worker of the node takes the request of thread t and runs
\* _handle_lookup_request: it answers (and the answer goes back through the
\* blocked workers of the path, which become free), or it forwards with
\* send_request and blocks until the next hop answers (no timeout, line 188)
PoolHandle(t) ==
    LET h == handling[t]
        next_hop_id == _find_next_hop(Snapshot, h.node, h.key)
        forwards == /\ next_hop_id # Raises
                    /\ ~ _in_leaf_set(Snapshot, h.node, h.key)
                    /\ next_hop_id # h.node
                    /\ next_hop_id \in up
    IN /\ h.pc = "queued"
       /\ Busy(h.node) < PoolSize
       /\ IF forwards
          THEN /\ handling' = [handling EXCEPT ![t] =
                                  Waiting(Append(h.path, h.node), next_hop_id, h.key)]
               /\ UNCHANGED resp
          ELSE /\ handling' = [handling EXCEPT ![t] = Idle(0)]
               /\ resp' = Response("LOOKUP", h.node, h.key, <<>>,
                                   IF next_hop_id = Raises THEN "raised"
                                   ELSE IF _in_leaf_set(Snapshot, h.node, h.key)
                                           \/ next_hop_id = h.node THEN "failure"
                                   ELSE "none",
                                   Append(h.path, h.node), None, {}, None)
       /\ UNCHANGED <<nodes, used_ports, up, position, routing_table, Lmin, Lmax,
                      neighborhood_set, kd_tree, servers, constructing>>

NextPool == PoolJoin \/ \E t \in Threads : PoolSend(t) \/ PoolHandle(t)

SpecPool == Init /\ [][NextPool]_vars

\* ---------------------------------------------------------------- keys and countries
\* node.insert_key(key, point, review, country) at a live node: the caller gives
\* the key and the country separately
AddrInsert ==
    \E start \in Live, key \in Keys, country \in OpsCountries :
        /\ Stored < MaxRecords
        /\ Outcome(_handle_insert_key_request(Snapshot, kd_tree, start, key,
                                              OpsPoint, "bright", country))

NextAddr == OpsJoin \/ AddrInsert \/ UpdateKey \/ DeleteKey

SpecAddr == Init /\ [][NextAddr]_vars

\* ================================================================ claims
Members(list) == Range(list) \ {None}

\* C1: in every reachable state, every non-empty routing-table cell (r, c) of
\* every registered node n holds an id that agrees with n on exactly its first
\* r digits, whose digit r is c, and c is not digit r of n.  (A join only fills
\* empty cells, so the state after a join shows every cell written during it.)
C1_RoutingTableCells ==
    \A n \in Range(nodes) : \A r \in Rows : \A c \in Cols :
        routing_table[n][r][c] # None =>
            /\ common_prefix_length(n, routing_table[n][r][c]) = r
            /\ Digit(routing_table[n][r][c], r) = c
            /\ c # Digit(n, r)

\* C1 witness: after a join, some registered node holds entries in row 0 and in
\* row 1 of its routing table
C1_Witness ==
    /\ resp.op = "NODE_JOIN"
    /\ \E n \in Range(nodes) :
        /\ \E c \in Cols : routing_table[n][0][c] # None
        /\ \E c \in Cols : routing_table[n][1][c] # None

\* C2: in every reachable state, for every registered node n: Lmin and Lmax
\* share no id, n is in neither, every id of Lmin is below n and every id of
\* Lmax is above n.  (The halves of the joining node do not change after
\* update_leaf_set, and each presence update changes the halves of one
\* recipient once, so the state after a join shows all of them.)
C2_LeafHalves ==
    \A n \in Range(nodes) :
        /\ Members(Lmin[n]) \cap Members(Lmax[n]) = {}
        /\ n \notin Members(Lmin[n]) \cup Members(Lmax[n])
        /\ \A x \in Members(Lmin[n]) : x < n
        /\ \A y \in Members(Lmax[n]) : y > n

\* C2 witness: a joined node whose halves came from update_leaf_set holds a full
\* lower half and a non-empty upper half
C2_Witness ==
    /\ resp.op = "NODE_JOIN" /\ resp.status = "success" /\ Len(resp.hops) > 0
    /\ LET x == nodes[Len(nodes)]
       IN /\ Cardinality(Members(Lmin[x])) = L \div 2
          /\ Members(Lmax[x]) # {}

\* what node n holds, read from the state
KnownTo(n) == Known(Snapshot, n)

\* C7: after node Y has left gracefully, Y's id is in no remaining node's
\* routing table, Lmin, Lmax or neighborhood set.
C7_DepartedIsForgotten ==
    resp.op = "NODE_LEAVE" => \A n \in Range(nodes) : resp.node \notin KnownTo(n)

\* the k registered ids nearest below (Above = FALSE) or above n
NearestRegistered(n, above, k) ==
    LET side == {m \in Range(nodes) : IF above THEN m > n ELSE m < n}
    IN {m \in side : Cardinality({o \in side : Abs(o - n) < Abs(m - n)}) < k}

\* C9: after any sequence of joins and graceful leaves, for every node n, Lmin
\* holds exactly the min(L/2, live ids below n) live ids nearest below n and
\* Lmax exactly the min(L/2, live ids above n) live ids nearest above n.
C9_LeafSetsAreNearest ==
    \A n \in Range(nodes) :
        /\ Members(Lmin[n]) = NearestRegistered(n, FALSE, L \div 2)
        /\ Members(Lmax[n]) = NearestRegistered(n, TRUE, L \div 2)

\* C10: after any sequence of joins and graceful leaves, every node's
\* neighborhood set holds exactly the min(M, live nodes - 1) live nodes nearest
\* to it by position, M = floor(sqrt(N)); never the owner, a departed node, or
\* a farther node while a nearer live node is left out.
C10_NeighborhoodIsNearest ==
    \A n \in Range(nodes) :
        LET others == Range(nodes) \ {n}
            held == Members(neighborhood_set[n])
            Dist(m) == topological_distance(position[n], position[m])
            want == IF Cardinality(others) < MCapacity
                    THEN Cardinality(others) ELSE MCapacity
        IN /\ held \subseteq others
           /\ Cardinality(held) = want
           /\ \A m \in held : \A o \in others \ held : Dist(m) <= Dist(o)

\* C4: in every state reached by sequential joins, for every key and every two
\* live starting nodes, the forwarding chains that end at a node serving the
\* request end at the same node.
C4_SameTerminal ==
    \A k \in Keys : \A s1 \in Live : \A s2 \in Live :
        LET r1 == RouteKeyed(Snapshot, s1, k, <<>>)
            r2 == RouteKeyed(Snapshot, s2, k, <<>>)
        IN (r1.status = "local" /\ r2.status = "local") => r1.terminal = r2.terminal

\* the records node n stores
Records(n) == Range(kd_tree[n].records)

\* C3: every stored record lies on a live node, and no other live node is nearer
\* to the record's key (numerically nearer with at least as long a shared prefix).
C3_RecordsAtClosestNode ==
    \A n \in Range(nodes) : \A rec \in Records(n) :
        /\ n \in Live
        /\ ~ \E m \in Live :
               /\ Abs(m - rec.country_key) < Abs(n - rec.country_key)
               /\ common_prefix_length(m, rec.country_key)
                     >= common_prefix_length(n, rec.country_key)

NoRevisit(hops) == \A i \in 1 .. Len(hops) : \A j \in 1 .. Len(hops) :
                       hops[i] = hops[j] => i = j

\* C5: the handlers of a routed request (join or lookup) form a chain of at most
\* D + L forwards, visit no node twice, and the chain ends.
C5_BoundedRoute ==
    resp.op \in {"NODE_JOIN", "LOOKUP"} =>
        /\ Len(resp.hops) - 1 <= HASH_HEX_DIGITS + L
        /\ NoRevisit(resp.hops)
        /\ resp.status # "loop"

\* C6: a lookup of key k with the box [p, p], issued at any live node while a
\* live node stores a record with key k and point p, returns success and its
\* response carries the points and the reviews.
C6_InsertLookupRoundTrip ==
    ( /\ resp.op = "LOOKUP"
      /\ resp.args[1] = resp.args[2]
      /\ \E n \in Live : \E rec \in Records(n) :
             rec.country_key = resp.key /\ rec.point = resp.args[1] )
    => /\ resp.status = "success"
       /\ {"points", "reviews"} \subseteq resp.fields

\* C8: when a send of a routed lookup fails, the operation still answers with
\* success or failure and the peer that could not be reached is gone from the
\* sending node's routing table, leaf set and neighborhood set.
C8_FailedSendIsRepaired ==
    (resp.op = "LOOKUP" /\ resp.failed # None) =>
        /\ resp.status \in {"success", "failure"}
        /\ resp.failed \notin KnownTo(resp.hops[Len(resp.hops)])

KeyedOps == {"INSERT_KEY", "LOOKUP", "UPDATE_KEY", "DELETE_KEY"}

\* C11: every response to a keyed operation is a record with a status of success
\* or failure, a message and the hops list.
C11_ResponseShape ==
    resp.op \in KeyedOps =>
        /\ resp.status \in {"success", "failure"}
        /\ {"status", "message", "hops"} \subseteq resp.fields

\* C12: the hops list returned for an insert, lookup, update or delete that was
\* answered is the sequence of the nodes that handled it, in order, each once.
C12_HopsAreTheRoute ==
    (resp.op \in KeyedOps /\ resp.status \in {"success", "failure"}) =>
        /\ "hops" \in resp.fields
        /\ resp.returned = resp.hops

\* C13: with exactly one node n, every insert, and every lookup, update or delete
\* of a key n stores a record of (a delete that succeeded has removed it),
\* returns success and is handled by n alone.
C13_SingleNode ==
    ( /\ Len(nodes) = 1
      /\ resp.op \in KeyedOps
      /\ \/ resp.op = "INSERT_KEY"
         \/ resp.op = "DELETE_KEY" /\ resp.status = "success"
         \/ resp.key \in country_keys(kd_tree[nodes[1]]) )
    => /\ resp.status = "success"
       /\ resp.hops = nodes

\* C14: a delete or update of a key no node holds a record of is answered with
\* status failure (a delete that found and removed the records with success).
C14_NotFoundIsFailure ==
    ( /\ resp.op \in {"DELETE_KEY", "UPDATE_KEY"}
      /\ \A n \in Range(nodes) : resp.key \notin country_keys(kd_tree[n]) )
    => \/ resp.status = "failure"
       \/ resp.op = "DELETE_KEY" /\ resp.status = "success"

\* C15: a malformed request sent to a live node is answered with status failure.
C15_MalformedIsFailure ==
    resp.op \in MalformedRequests => resp.status = "failure"

\* C16: no two node objects with the same id have a running server: a node
\* created with the id of a registered node is turned away before its server
\* is started.
C16_NoTwoNodesWithOneId ==
    \A x \in DOMAIN servers : servers[x] <= 1

\* C17: no two constructed nodes have the same port, also when nodes are
\* constructed by several threads at the same time (every entry of used_ports
\* is the port of the node that appended it).
C17_PortsAreDistinct ==
    NoRevisit(used_ports)

\* x is a strictly better leaf of node me than y: a longer shared prefix with
\* me, or the same prefix and a smaller numeric distance
StrictlyBetter(me, x, y) ==
    \/ common_prefix_length(x, me) > common_prefix_length(y, me)
    \/ /\ common_prefix_length(x, me) = common_prefix_length(y, me)
       /\ Abs(x - me) < Abs(y - me)

\* the slots of a full list whose member is strictly better than no other
WorstSlots(me, list) ==
    {i \in 1 .. Len(list) :
        \A j \in 1 .. Len(list) : ~ StrictlyBetter(me, list[i], list[j])}

\* the list an offer was made to, before and after the offer
OfferedBefore == IF resp.op = "OFFER_LMIN" THEN resp.args[1] ELSE resp.args[2]
OfferedAfter == IF resp.op = "OFFER_LMIN" THEN Lmin[resp.node] ELSE Lmax[resp.node]
OtherBefore == IF resp.op = "OFFER_LMIN" THEN resp.args[2] ELSE resp.args[1]
OtherAfter == IF resp.op = "OFFER_LMIN" THEN Lmax[resp.node] ELSE Lmin[resp.node]

\* C18: after a candidate was offered to a leaf list of node X: the other list is
\* as before; a candidate already in either list changes nothing; a full list
\* changes only if the candidate is strictly better than its worst member, and
\* then the slot of a worst member (two members can be equally far), and no
\* other, holds the candidate; a candidate
\* strictly worse than or equal to the worst member changes nothing.
C18_FullHalfReplacesWorst ==
    resp.op \in {"OFFER_LMIN", "OFFER_LMAX"} =>
        /\ OtherAfter = OtherBefore
        /\ InSeq(resp.key, resp.args[1] \o resp.args[2]) => OfferedAfter = OfferedBefore
        /\ (FirstEmpty(OfferedBefore) = 0 /\ ~ InSeq(resp.key, resp.args[1] \o resp.args[2])) =>
              IF \E w \in WorstSlots(resp.node, OfferedBefore) :
                     StrictlyBetter(resp.node, resp.key, OfferedBefore[w])
              THEN \E w \in WorstSlots(resp.node, OfferedBefore) :
                     OfferedAfter = [OfferedBefore EXCEPT ![w] = resp.key]
              ELSE OfferedAfter = OfferedBefore

\* C18 witness: a full list whose worst member gave its slot to the candidate
C18_Witness ==
    /\ resp.op \in {"OFFER_LMIN", "OFFER_LMAX"}
    /\ FirstEmpty(OfferedBefore) = 0
    /\ OfferedAfter # OfferedBefore
    /\ \E w \in WorstSlots(resp.node, OfferedBefore) : OfferedAfter[w] = resp.key

\* node x joins the network of the current state from position p
JoinedOnce(x, p) == node_join(Snapshot, x, p)

\* node x joins, leaves gracefully and joins again from the same position
JoinedAgain(x, p) == node_join(network_leave(JoinedOnce(x, p).s, x), x, p)

\* C19: for every reachable network and every node x that can join it without
\* an exception: after x joined, left gracefully and joined again, every node
\* (x included) has the routing table, leaf set and neighborhood set it has
\* after x joined once.
C19_RejoinEqualsJoin ==
    \A x \in NodeIds \ Range(nodes), p \in Positions \ TakenPositions :
        JoinedOnce(x, p).status = "success" =>
            LET once == JoinedOnce(x, p).s
                again == JoinedAgain(x, p).s
            IN /\ again.routing_table = once.routing_table
               /\ again.Lmin = once.Lmin
               /\ again.Lmax = once.Lmax
               /\ again.neighborhood_set = once.neighborhood_set

\* the four structures of node n in the record s
StateOf(s, n) ==
    <<s.Lmin[n], s.Lmax[n], s.neighborhood_set[n], s.routing_table[n]>>

\* C20: in every reachable state and for every registered node n, whatever n
\* holds: running _rebuild_node_state on n twice leaves the Lmin, Lmax,
\* neighborhood set and routing table that running it once leaves.
C20_RebuildIdempotent ==
    \A n \in Range(nodes) :
        StateOf(_rebuild_node_state(_rebuild_node_state(Snapshot, n), n), n)
            = StateOf(_rebuild_node_state(Snapshot, n), n)

\* C20 witness: after a graceful leave, a node of a network of three whose
\* structures the first rebuild changes
C20_Witness ==
    /\ resp.op = "NODE_LEAVE"
    /\ Len(nodes) >= 3
    /\ \E n \in Range(nodes) :
           StateOf(_rebuild_node_state(Snapshot, n), n) # StateOf(Snapshot, n)

\* the records of a tree whose point lies in the box, in stored order
BoxContents(tree, lower_bounds, upper_bounds) ==
    SelectSeq(tree.records,
              LAMBDA rec : \A i \in 1 .. 3 : /\ lower_bounds[i] <= rec.point[i]
                                             /\ rec.point[i] <= upper_bounds[i])

\* C21: for every tree a node holds and every box with lower <= upper on each
\* axis, search returns exactly the stored records whose point lies in the box
\* (corners included), each with its own review.
C21_SearchReturnsBox ==
    \A n \in Range(nodes) : \A lower \in Points, upper \in Points :
        (kd_tree[n].built /\ \A i \in 1 .. 3 : lower[i] <= upper[i]) =>
            search(kd_tree[n], lower, upper) = BoxContents(kd_tree[n], lower, upper)

\* C22: the INSERT_KEY handlers of a node's worker threads leave what they
\* leave when run one after the other: once no request is in flight, the trees
\* hold one record for every request that was answered with success.
C22_HandlersAreSerialized ==
    InFlight = 0 => Stored = Completed

\* C23: in a graceful leave, the routing table, leaf set and neighborhood set of
\* a node that stays change only if that node's server handled a request of the
\* leave (resp.hops lists the nodes whose handlers ran).
C23_OnlyOwnHandlersWrite ==
    [][\A n \in Range(nodes) \cap Range(nodes') :
           (/\ resp'.op = "NODE_LEAVE"
            /\ <<Lmin'[n], Lmax'[n], neighborhood_set'[n], routing_table'[n]>>
                   # <<Lmin[n], Lmax[n], neighborhood_set[n], routing_table[n]>>)
               => InSeq(n, resp'.hops)]_vars

\* C24: a request and a response of at most 64 KiB each are decoded whole by the
\* handler and by the caller.
C24_MessagesArriveWhole ==
    (resp.op = "SEND" /\ resp.args[1] <= 65536 /\ resp.args[2] <= 65536) =>
        /\ resp.args[3] = resp.args[1]
        /\ resp.args[4] = resp.args[2]

\* C25: ChordNetwork.node_join returns, for every joining node (the first
\* included), a non-empty list, so that len(result) - 1 is defined.
C25_ChordJoinReturnsHops ==
    resp.op = "CHORD_NODE_JOIN" =>
        /\ resp.status # "none"
        /\ Len(resp.returned) >= 1

\* C26: in a graceful leave of Y, every live node whose id is in Y's routing
\* table, leaf set or neighborhood set handles a NODE_LEAVE request of Y.
C26_LeaveIsDelivered ==
    [][resp'.op = "NODE_LEAVE" =>
           \A n \in (Known(Snapshot, resp'.node) \cap up) \ {resp'.node} :
               InSeq(n, resp'.hops)]_vars

\* C27: a join into a network built by joins ends with success at one node R,
\* the last handler of the route, which sent its leaf set to the joining node
\* X, and no other live node is numerically closer to X than R.
C27_JoinEndsAtClosest ==
    (resp.op = "NODE_JOIN" /\ Len(nodes) >= 2) =>
        /\ resp.status = "success"
        /\ Len(resp.hops) >= 1
        /\ \A m \in Live \ {resp.node} :
               Abs(resp.hops[Len(resp.hops)] - resp.node) <= Abs(m - resp.node)

\* the node itself and its leaves
SelfAndLeaves(n) == {n} \cup Members(Lmin[n]) \cup Members(Lmax[n])

\* C28: for every registered node n with both leaf halves non-empty and every
\* key other than n that is a leaf of n or lies between the smallest id of Lmin
\* and the largest id of Lmax: _find_next_hop returns an id among n and its
\* leaves than which no other of them is numerically closer to the key.
C28_LeafSpanNextHop ==
    \A n \in Range(nodes) : \A key \in Keys \ {n} :
        (/\ Members(Lmin[n]) # {} /\ Members(Lmax[n]) # {}
         /\ \/ key \in Members(Lmin[n]) \cup Members(Lmax[n])
            \/ /\ \E lo \in Members(Lmin[n]) : lo <= key
               /\ \E hi \in Members(Lmax[n]) : key <= hi) =>
            /\ _find_next_hop(Snapshot, n, key) \in SelfAndLeaves(n)
            /\ \A m \in SelfAndLeaves(n) :
                   Abs(_find_next_hop(Snapshot, n, key) - key) <= Abs(m - key)

\* the branch of _find_next_hop that answers for key at node n
NextHopBranch(n, key) ==
    IF _in_leaf_set(Snapshot, n, key) THEN "leaf"
    ELSE IF routing_table[n][common_prefix_length(n, key)][Digit(key, common_prefix_length(n, key))] # None
    THEN "table"
    ELSE "scan"

\* node n hands a request for key to another node
Forwards(n, key) ==
    /\ key # n
    /\ _find_next_hop(Snapshot, n, key) # n

\* C29: whenever a registered node n hands a request for key to next =
\* _find_next_hop(key) other than itself, next shares a longer prefix with the
\* key than n does, or the same prefix and a smaller numeric distance; in the
\* leaf-set branch, the routing-table branch and the scan alike.
C29_ForwardMakesProgress ==
    \A n \in Range(nodes) : \A key \in Keys \cup NodeIds :
        Forwards(n, key) =>
            LET next == _find_next_hop(Snapshot, n, key)
            IN \/ common_prefix_length(next, key) > common_prefix_length(n, key)
               \/ /\ common_prefix_length(next, key) = common_prefix_length(n, key)
                  /\ Abs(next - key) < Abs(n - key)

\* C29 witness: a network in which requests are handed on from each of the three
\* branches
C29_Witness ==
    \A branch \in {"leaf", "table", "scan"} :
        \E n \in Range(nodes), key \in Keys \cup NodeIds :
            Forwards(n, key) /\ NextHopBranch(n, key) = branch

\* node_join of x at position p up to the broadcast: the state in which
\* transmit_state starts, and whether the join gets that far
BeforeBroadcast(s0, x, a) ==
    IF initialize_neighborhood_set(s0, x, a, s0.neighborhood_set[a]).exc
    THEN [ok |-> FALSE, s |-> s0]
    ELSE [ok |-> _handle_join_request(
                    initialize_neighborhood_set(s0, x, a, s0.neighborhood_set[a]),
                    a, x, <<>>).status \notin {"raised", "loop"},
          s |-> _handle_join_request(
                    initialize_neighborhood_set(s0, x, a, s0.neighborhood_set[a]),
                    a, x, <<>>).s]

\* ---------------------------------------------------------------- joins of two coordinator threads
\* network.node_join after the broadcast, from the state pre in which
\* transmit_state starts
FinishJoin(pre, x) ==
    IF ~ pre.ok THEN [s |-> pre.s, status |-> "raised"]
    ELSE [s |-> transmit_state(pre.s, x),
          status |-> IF transmit_state(pre.s, x).exc THEN "raised" ELSE "success"]

\* network.node_join for the node x that is registered: bootstrap when no other
\* node is live, otherwise the join through the nearest live peer
JoinRegistered(s, x) ==
    IF (Registered(s) \cap s.up) \ {x} = {}
    THEN [s |-> s, status |-> "success"]
    ELSE FinishJoin(BeforeBroadcast(s, x, ClosestLivePeer(s, x)), x)

MergeIds == {4352, 4864, 8192}

\* coordinator thread t constructs node x, starts its server and registers it
JoinRegister(t) ==
    \E x \in MergeIds \ Range(nodes), p \in Positions \ TakenPositions :
        /\ handling[t].pc = "idle"
        /\ Len(used_ports) < MaxNodes
        /\ Commit(Constructed(Snapshot, x, p))
        /\ used_ports' = Append(used_ports, _generate_port)
        /\ servers' = Started(servers, x)
        /\ kd_tree' = With(kd_tree, x, NoTree)
        /\ handling' = [handling EXCEPT ![t] =
                           [pc |-> "registered", node |-> x, built |-> FALSE,
                            country |-> "", done |-> @.done]]
        /\ UNCHANGED <<constructing, resp>>

\* coordinator thread t goes on with the join of the node it registered
JoinRoute(t) ==
    /\ handling[t].pc = "registered"
    /\ Commit([JoinRegistered(Snapshot, handling[t].node).s EXCEPT !.exc = FALSE])
    /\ handling' = [handling EXCEPT ![t] = Idle(@.done)]
    /\ resp' = Response("NODE_JOIN", handling[t].node, handling[t].node,
                        <<Lmin[handling[t].node], Lmax[handling[t].node]>>,
                        JoinRegistered(Snapshot, handling[t].node).status,
                        <<>>, None, {}, None)
    /\ UNCHANGED <<used_ports, kd_tree, servers, constructing>>

NextMerge == \E t \in Threads : JoinRegister(t) \/ JoinRoute(t)

SpecMerge == Init /\ [][NextMerge]_vars


\* the state in which recipient number i of the broadcast of x gets PRESENCE(x)
PresenceBefore(pre, x, i) ==
    TransmitFrom(pre, x, SubSeq(PresenceTargets(pre, x), 1, i - 1), 1)

\* the half of R's leaf set on the side of X
HalfFor(s, R, X) == IF X > R THEN s.Lmax[R] ELSE s.Lmin[R]

\* what the claim asks of the state after R handled PRESENCE(X) in state before
PresenceHandled(before, after, R, X) ==
    /\ after.routing_table[R][common_prefix_length(R, X)]
                             [Digit(X, common_prefix_length(R, X))] # None
    /\ after.routing_table[X][common_prefix_length(R, X)]
                             [Digit(R, common_prefix_length(R, X))] # None
    /\ (\/ FirstEmpty(HalfFor(before, R, X)) # 0
        \/ \E w \in 1 .. Len(HalfFor(before, R, X)) :
               StrictlyBetter(R, X, HalfFor(before, R, X)[w]))
          => InSeq(X, HalfFor(after, R, X))

\* recipient number i of x's broadcast handles PRESENCE(x) as the claim says
PresenceRight(pre, x, i) ==
    LET R == PresenceTargets(pre, x)[i] IN
    (R \in pre.up /\ R # x /\ ~ PresenceBefore(pre, x, i).exc)
        => PresenceHandled(PresenceBefore(pre, x, i),
                           _handle_update_presence_request(
                               PresenceBefore(pre, x, i), R, x),
                           R, x)

\* the joins that the coordinator can start in this state
Joinable ==
    IF Len(used_ports) < MaxNodes /\ (Range(nodes) \cap up) # {}
    THEN (NodeIds \ Range(nodes)) \X (Positions \ TakenPositions)
    ELSE {}

PresenceReplaces(pre, x, i) ==
    LET R == PresenceTargets(pre, x)[i] IN
    /\ R \in pre.up /\ R # x
    /\ ~ PresenceBefore(pre, x, i).exc
    /\ ~ _handle_update_presence_request(PresenceBefore(pre, x, i), R, x).exc
    /\ FirstEmpty(HalfFor(PresenceBefore(pre, x, i), R, x)) = 0
    /\ \E w \in 1 .. Len(HalfFor(PresenceBefore(pre, x, i), R, x)) :
           StrictlyBetter(R, x, HalfFor(PresenceBefore(pre, x, i), R, x)[w])
    /\ PresenceBefore(pre, x, i).routing_table[R][common_prefix_length(R, x)]
                                              [Digit(x, common_prefix_length(R, x))] = None
    /\ PresenceHandled(PresenceBefore(pre, x, i),
                       _handle_update_presence_request(
                           PresenceBefore(pre, x, i), R, x),
                       R, x)

HalfOf(lmin, lmax, me, y) == IF y > me THEN lmax ELSE lmin

\* C32: when the joining node X receives the terminal node's leaf set, an id
\* that X's leaf set already held (resp.args holds X's Lmin and Lmax from before
\* the join went on) is still in X's leaf set afterwards, unless its half is
\* full and has taken a member that is strictly better.
C32_LeafSetIsMerged ==
    (resp.op = "NODE_JOIN" /\ resp.status = "success" /\ Len(resp.args) = 2) =>
        \A y \in Range(resp.args[1] \o resp.args[2]) \ {None} :
            \/ InSeq(y, Lmin[resp.node] \o Lmax[resp.node])
            \/ /\ FirstEmpty(HalfOf(Lmin[resp.node], Lmax[resp.node], resp.node, y)) = 0
               /\ \E m \in Range(HalfOf(Lmin[resp.node], Lmax[resp.node], resp.node, y)) :
                      /\ ~ InSeq(m, resp.args[1] \o resp.args[2])
                      /\ StrictlyBetter(resp.node, m, y)

\* the neighborhood set a rebuild of node n gives in this state
RebuiltNeighbors(n) == _rebuild_node_state(Snapshot, n).neighborhood_set[n]

\* C33: after a rebuild of node n its neighborhood set holds the
\* min(MCapacity, number of other registered nodes) nodes nearest to n by
\* position, nearest first, MCapacity = floor(sqrt(N)) being the capacity the
\* set was constructed with.
C33_RebuildKeepsCapacity ==
    \A n \in Range(nodes) :
        /\ Len(RebuiltNeighbors(n)) =
               (IF Len(nodes) - 1 < MCapacity THEN Len(nodes) - 1 ELSE MCapacity)
        /\ Range(RebuiltNeighbors(n)) \subseteq Range(nodes) \ {n}
        /\ \A i, j \in 1 .. Len(RebuiltNeighbors(n)) :
               i < j => /\ RebuiltNeighbors(n)[i] # RebuiltNeighbors(n)[j]
                        /\ Abs(position[n] - position[RebuiltNeighbors(n)[i]])
                             <= Abs(position[n] - position[RebuiltNeighbors(n)[j]])
        /\ \A m \in Range(RebuiltNeighbors(n)) :
               \A o \in (Range(nodes) \ {n}) \ Range(RebuiltNeighbors(n)) :
                   Abs(position[n] - position[m]) <= Abs(position[n] - position[o])

\* the non-empty entries of a leaf list, in the order they are held
Entries(list) == SelectSeq(list, LAMBDA e : e # None)

\* the entries of a list of node n are held nearest to n first
NearestFirst(n, list) ==
    \A i, j \in 1 .. Len(Entries(list)) :
        i < j => Abs(Entries(list)[i] - n) <= Abs(Entries(list)[j] - n)

\* C34: in every reachable state the non-empty entries of every node's Lmin,
\* and of its Lmax, are held in order of increasing numeric distance from the
\* node, through joins, presence updates and rebuilds.
C34_LeafHalvesAreSorted ==
    \A n \in Range(nodes) : NearestFirst(n, Lmin[n]) /\ NearestFirst(n, Lmax[n])

C36_NextHopIsTotal ==
    \A n \in Range(nodes) : \A key \in Keys \cup NodeIds :
        /\ _find_next_hop(Snapshot, n, key) # Raises
        /\ _find_next_hop(Snapshot, n, key) \in {n} \cup Known(Snapshot, n)

\* C37: when INSERT_KEY requests are handled at the same time by worker threads
\* of the responsible node, also when the node has no tree yet, every insert
\* answered with success is in the store once the workers are done: the store
\* holds at least as many records as successes were answered.
C37_NoInsertIsLost ==
    (resp.op = "INSERT_KEY" /\ resp.status = "success" /\ InFlight = 0) =>
        Stored >= Completed

\* C38: after leave() has returned for a node, that node handles no further
\* INSERT_KEY, UPDATE_KEY, DELETE_KEY, LOOKUP or NODE_JOIN request (resp.hops
\* lists the nodes whose handlers ran) and its store gets no record.
C38_LeftNodeHandlesNothing ==
    [][resp'.op \in {"INSERT_KEY", "UPDATE_KEY", "DELETE_KEY", "LOOKUP", "NODE_JOIN"} =>
           \A y \in Gone :
               /\ ~ InSeq(y, resp'.hops)
               /\ kd_tree'[y] = kd_tree[y]]_vars

\* C39: with blocking forwards and PoolSize workers per node there is no
\* reachable state in which requests wait and none can go on: every request
\* that waits for a worker waits at a node all of whose workers are blocked in
\* forwards of waiting requests.
C39_NoMutualWait ==
    ~ (/\ \E t \in Threads : handling[t].pc = "queued"
       /\ \A t \in Threads :
              handling[t].pc = "queued" => Busy(handling[t].node) >= PoolSize)

\* C40: with the membership as it is, a record that insert_key(k, ...) has just
\* stored (resp is the answer to that insert) is reached by the key k: a
\* delete_key(k) and an update_key(k, ...) issued next at any live node answer
\* success and change the store.
C40_InsertedKeyIsAddressable ==
    (resp.op = "INSERT_KEY" /\ resp.status = "success") =>
        \A start \in Live :
            /\ _handle_delete_key_request(Snapshot, kd_tree, start, resp.key).resp.status
                   = "success"
            /\ _handle_delete_key_request(Snapshot, kd_tree, start, resp.key).trees
                   # kd_tree
            /\ _handle_update_key_request(Snapshot, kd_tree, start, resp.key,
                                          "revised").resp.status = "success"
            /\ _handle_update_key_request(Snapshot, kd_tree, start, resp.key,
                                          "revised").trees # kd_tree

====
